---- MODULE Spec2Model ----
(***************************************************************************)
(* Multi-agent tourism assistant.                                          *)
(*                                                                         *)
(*   Spec      one request through the Parent Agent orchestrator           *)
(*             (extract -> geocode -> weather / places -> assemble)        *)
(*   SpecLive  Spec with every tool call in flight returning               *)
(*   SpecRank  the places ranking of get_places on raw provider results    *)
(*   SpecFront the React console (App.tsx): form, request, response        *)
(*   SpecEnhance  ranking, then vibe tip and map link on the ranked places *)
(*                                                                         *)
(* The specifications share the module's variables; each leaves the        *)
(* variables of the others at their initial value.                         *)
(***************************************************************************)
EXTENDS Integers, Sequences, FiniteSets, TLC

VARIABLES
    \* ---- orchestrator (one request) ----
    query,        \* the request: cues found in the prompt and the location named
    state,        \* Tool Dispatcher state
    intent,       \* NoIntent until the extractor ran
    geocodeSlot,  \* the geocode call: NotDispatched / Pending / outcome
    weatherSlot,  \* the weather call: NotDispatched / Pending / Success / Failure
    placesSlot,   \* the places call:  NotDispatched / Pending / Success / Failure
    calls,        \* log of tool invocations and returns, in order
    visited,      \* dispatcher states entered so far, in order
    response,     \* NoResponse until the request is answered
    \* ---- ranking ----
    raw,          \* raw places handed to the ranking
    ranked,       \* NotRanked, or the ranking of raw
    \* ---- frontend ----
    prompt, uiIntent, loading, error, uiResponse, request, useMock,
    \* ---- enhancements ----
    enhWeather,   \* the weather result handed to the vibe tip, or NoWeather
    enhanced,     \* the enhancements ran on the ranked places
    vibeTip,      \* result of generate_vibe_tip
    mapUrl        \* result of build_map_link

orchVars  == <<query, state, intent, geocodeSlot, weatherSlot, placesSlot,
               calls, visited, response>>
rankVars  == <<raw, ranked>>
frontVars == <<prompt, uiIntent, loading, error, uiResponse, request, useMock>>
enhVars   == <<enhWeather, enhanced, vibeTip, mapUrl>>
vars      == <<orchVars, rankVars, frontVars, enhVars>>

-----------------------------------------------------------------------------
(* Bounds of the model *)

\* longest raw provider result handed to the ranking in SpecRank
MaxRaw == 6

-----------------------------------------------------------------------------
(* Data *)

EmptyMap == [k \in {} |-> ""]

Min(a, b) == IF a < b THEN a ELSE b

Intents == {"weather", "places", "both"}

\* The geocoded origin of the request; raw places carry coordinates on a small
\* integer grid around it.
Origin == [display_name |-> "Bangalore", latitude |-> 0, longitude |-> 0,
           country_code |-> "IN"]

AttractionTags == {"attraction", "monument", "museum", "park"}
LodgingTags    == {"hotel", "hostel"}

\* Most specific tag first: the value a nameless place is titled with.
TagSpecificity == <<"museum", "monument", "park", "bar", "hostel", "hotel",
                    "attraction">>

\* Raw places as the provider returns them. Every element carries at least one
\* category tag: the Overpass query selects only elements tagged tourism or
\* leisure. name = "" is a place the provider gave no name.
CatalogueSeq ==
    <<[name |-> "Bangalore Palace", category_tags |-> {"attraction", "monument"},
       latitude |-> 1, longitude |-> 0],
      [name |-> "",                 category_tags |-> {"park"},
       latitude |-> 0, longitude |-> 1],
      [name |-> "Grand Hotel",      category_tags |-> {"hotel"},
       latitude |-> 0, longitude |-> 0],
      [name |-> "Cubbon Park",      category_tags |-> {"park"},
       latitude |-> 2, longitude |-> 0],
      [name |-> "Toit",             category_tags |-> {"bar"},
       latitude |-> 1, longitude |-> 2],
      [name |-> "",                 category_tags |-> {"museum", "attraction"},
       latitude |-> 1, longitude |-> 1],
      [name |-> "Lalbagh",          category_tags |-> {"park"},
       latitude |-> 0, longitude |-> 2]>>

RawCatalogue == {CatalogueSeq[i] : i \in 1..Len(CatalogueSeq)}

-----------------------------------------------------------------------------
(* Places ranking: score, stable descending sort, top 5, name synthesis *)

TopN == 5
TagRichnessWeight == 2
MaxDistance == 4
AttractionBonus == 3
LodgingPenalty == 3

Abs(x) == IF x < 0 THEN -x ELSE x

Distance(p, origin) ==
    Abs(p.latitude - origin.latitude) + Abs(p.longitude - origin.longitude)

\* closer to the origin scores higher
DistanceTerm(p, origin) == MaxDistance - Min(Distance(p, origin), MaxDistance)

NamePresenceBonus(p) == IF p.name # "" THEN 1 ELSE 0

\* attraction-grade tags outrank generic lodging
CategoryPreference(p) ==
    IF p.category_tags \cap AttractionTags # {} THEN AttractionBonus
    ELSE IF p.category_tags \cap LodgingTags # {} THEN 0 - LodgingPenalty
    ELSE 0

Score(p, origin) ==
      TagRichnessWeight * Cardinality(p.category_tags)
    + NamePresenceBonus(p)
    + DistanceTerm(p, origin)
    + CategoryPreference(p)

RECURSIVE FirstTag(_, _)
FirstTag(tags, i) ==
    IF i > Len(TagSpecificity) THEN "place"
    ELSE IF TagSpecificity[i] \in tags THEN TagSpecificity[i]
    ELSE FirstTag(tags, i + 1)

MostSpecificTag(p) == FirstTag(p.category_tags, 1)

SynthesizeName(p) == IF p.name # "" THEN p.name ELSE MostSpecificTag(p)

ToRanked(p, origin) ==
    [name |-> SynthesizeName(p), kind |-> MostSpecificTag(p),
     latitude |-> p.latitude, longitude |-> p.longitude,
     score |-> Score(p, origin)]

\* mutant: x goes before the elements it ties with, so equal scores come out
\* in reverse provider order
RECURSIVE InsertByScore_Unstable(_, _)
InsertByScore_Unstable(sorted, x) ==
    IF sorted = <<>> THEN <<x>>
    ELSE IF Head(sorted).score > x.score
         THEN <<Head(sorted)>> \o InsertByScore_Unstable(Tail(sorted), x)
         ELSE <<x>> \o sorted

\* x goes after every element that scores at least as much: equal scores keep
\* provider order
RECURSIVE InsertByScore(_, _)
InsertByScore(sorted, x) ==
    IF sorted = <<>> THEN <<x>>
    ELSE IF Head(sorted).score >= x.score
         THEN <<Head(sorted)>> \o InsertByScore(Tail(sorted), x)
         ELSE <<x>> \o sorted

RECURSIVE SortByScore(_)
SortByScore(s) ==
    IF s = <<>> THEN <<>>
    ELSE InsertByScore(SortByScore(SubSeq(s, 1, Len(s) - 1)), s[Len(s)])

\* mutant: the ranking is not cut to the top 5
Truncate_KeepAll(s) == s

Truncate(s) == SubSeq(s, 1, Min(TopN, Len(s)))

rank(raw_places, origin) ==
    Truncate(SortByScore([i \in 1..Len(raw_places) |-> ToRanked(raw_places[i], origin)]))

-----------------------------------------------------------------------------
(* Vibe Match packing tip *)

OutdoorsKeywords  == {"park", "zoo", "national", "lake", "garden", "trail", "wildlife"}
CultureKeywords   == {"museum", "palace", "temple", "historic", "art"}
NightlifeKeywords == {"bar", "club", "brewery", "pub"}

ColdBelowC == 18
HotAboveC == 30
RainFromPct == 50

NoWeather == [absent |-> TRUE]
NoTip     == [absent |-> TRUE]
NoLink    == [absent |-> TRUE]

\* at most one vibe per place; "none" when no keyword set matches
VibeOf(place) ==
    IF place.kind \in OutdoorsKeywords THEN "outdoors"
    ELSE IF place.kind \in CultureKeywords THEN "culture"
    ELSE IF place.kind \in NightlifeKeywords THEN "nightlife"
    ELSE "none"

VibeCount(places, v) == Cardinality({i \in 1..Len(places) : VibeOf(places[i]) = v})

\* mutant: a tie for the highest count goes to the category later in the order
DominantVibe_LastWins(places) ==
    LET o == VibeCount(places, "outdoors")
        c == VibeCount(places, "culture")
        n == VibeCount(places, "nightlife")
    IN  IF o = 0 /\ c = 0 /\ n = 0 THEN "none"
        ELSE IF n >= c /\ n >= o THEN "nightlife"
        ELSE IF c >= o THEN "culture"
        ELSE "outdoors"

\* by frequency; tie -> outdoors > culture > nightlife
DominantVibe(places) ==
    LET o == VibeCount(places, "outdoors")
        c == VibeCount(places, "culture")
        n == VibeCount(places, "nightlife")
    IN  IF o = 0 /\ c = 0 /\ n = 0 THEN "none"
        ELSE IF o >= c /\ o >= n THEN "outdoors"
        ELSE IF c >= n THEN "culture"
        ELSE "nightlife"

\* mutant: the temperature rules fire at their bounds too
WeatherAdvice_AtBounds(weather) ==
    IF weather = NoWeather THEN {}
    ELSE   (IF weather.temperature_c <= ColdBelowC THEN {"warm layers"} ELSE {})
      \cup (IF weather.temperature_c >= HotAboveC THEN {"breathable clothing"} ELSE {})
      \cup (IF weather.precip_prob_pct >= RainFromPct THEN {"rain protection"} ELSE {})

WeatherAdvice(weather) ==
    IF weather = NoWeather THEN {}
    ELSE   (IF weather.temperature_c < ColdBelowC THEN {"warm layers"} ELSE {})
      \cup (IF weather.temperature_c > HotAboveC THEN {"breathable clothing"} ELSE {})
      \cup (IF weather.precip_prob_pct >= RainFromPct THEN {"rain protection"} ELSE {})

\* mutant: no weather and no classified place is taken as nothing to go on
NothingToBaseOn_NoVibe(weather, places) ==
    weather = NoWeather /\ DominantVibe(places) = "none"

\* zero places and no weather data: nothing to base a tip on
NothingToBaseOn(weather, places) == weather = NoWeather /\ places = <<>>

\* The tip is a sentence; the model keeps what it says: the vibe it names and
\* the packing advice it lists.
generate_vibe_tip(weather, places) ==
    IF NothingToBaseOn(weather, places) THEN NoTip
    ELSE [vibe |-> DominantVibe(places), advice |-> WeatherAdvice(weather)]

-----------------------------------------------------------------------------
(* Route visualization link *)

MinMapPlaces == 2

Marker(places, i) ==
    [lat |-> places[i].latitude, lon |-> places[i].longitude, label |-> i]

\* mutant: a single place is mapped too
build_map_link_SinglePlace(places) ==
    IF places = <<>> THEN NoLink
    ELSE [center  |-> <<places[1].latitude, places[1].longitude>>,
          markers |-> [i \in 1..Len(places) |-> Marker(places, i)]]

\* The link is a URL; the model keeps its center and its marker list.
build_map_link(places) ==
    IF Len(places) < MinMapPlaces THEN NoLink
    ELSE [center  |-> <<places[1].latitude, places[1].longitude>>,
          markers |-> [i \in 1..Len(places) |-> Marker(places, i)]]

-----------------------------------------------------------------------------
(* Orchestrator: extraction, tool outcomes, response assembly *)

NoLocation == ""
NoIntent   == "none"
NoResponse == [absent |-> TRUE]

KnownLocations == {"Bangalore"}
LocationCandidates == {NoLocation, "Bangalore", "Wakanda"}

\* A prompt, as far as the extractor reads it: which cue families it holds and
\* the location it names (NoLocation when it names none).
Queries == [weatherCue : BOOLEAN, placeCue : BOOLEAN,
            location_candidate : LocationCandidates]

\* both families, or neither -> both
\* mutant: a prompt with no cue of either family is taken as a places request
DetectIntent_NeitherIsPlaces(q) ==
    IF q.weatherCue /\ ~q.placeCue THEN "weather"
    ELSE IF q.weatherCue /\ q.placeCue THEN "both"
    ELSE "places"

DetectIntent(q) ==
    IF q.weatherCue /\ ~q.placeCue THEN "weather"
    ELSE IF q.placeCue /\ ~q.weatherCue THEN "places"
    ELSE "both"

extract(q) == [location_candidate |-> q.location_candidate, intent |-> DetectIntent(q)]

UnknownLocationMessage    == "I don't know this place exists"
WeatherUnavailableMessage == "Weather data unavailable right now."
PlacesUnavailableMessage  == "Couldn't fetch attractions at the moment."
BothFailedMessage         == "I ran into an issue fetching travel data."
ClarificationMessage      == "Which place would you like to know about?"
SummaryMessage(i)         == IF i = "weather" THEN "Summary: weather"
                             ELSE IF i = "places" THEN "Summary: places"
                             ELSE "Summary: weather and places"

NotDispatched  == [tag |-> "NotDispatched"]
Pending        == [tag |-> "Pending"]
Success(x)     == [tag |-> "Success", payload |-> x]
Failure(r)     == [tag |-> "Failure", reason |-> r]
NotFound       == [tag |-> "None"]

Settled(slot) == slot.tag \in {"Success", "Failure"}

\* what the geocoding collaborator can answer for a candidate
GeocodeOutcomes(candidate) ==
    (IF candidate \in KnownLocations THEN {Success(Origin)} ELSE {NotFound})
    \cup {Failure("Geocoding request failed")}

Temperatures == {17, 18, 30, 31}
PrecipProbs  == {49, 50}

WeatherResults == [temperature_c : Temperatures, precip_prob_pct : PrecipProbs,
                   observed_at : {"2025-11-25T10:00:00Z"}]

\* what the weather collaborator can answer, a timeout of the call included
WeatherOutcomes ==
    {Success(w) : w \in WeatherResults}
    \cup {Failure("Weather data unavailable"), Failure("Timeout")}

\* raw results the places collaborator answers with in Spec: none, one, three,
\* five, and more than five places
PlacesResults == {SubSeq(CatalogueSeq, 1, n) : n \in {0, 1, 3, 5, 7}}

PlacesOutcomes ==
    {Success(r) : r \in PlacesResults}
    \cup {Failure("Places request failed"), Failure("Timeout")}

\* mutant: every intent launches both tools
ToolsFor_AlwaysBoth(i) == {"weather", "places"}

ToolsFor(i) ==
    IF i = "weather" THEN {"weather"}
    ELSE IF i = "places" THEN {"places"}
    ELSE {"weather", "places"}

PendingState(i) ==
    IF i = "weather" THEN "WEATHER_PENDING"
    ELSE IF i = "places" THEN "PLACES_PENDING"
    ELSE "BOTH_PENDING"

PendingStates == {"WEATHER_PENDING", "PLACES_PENDING", "BOTH_PENDING"}

\* the response lists a place without its score
PublicPlace(r) == [name |-> r.name, kind |-> r.kind, lat |-> r.latitude, lon |-> r.longitude]
PublicPlaces(rs) == [i \in 1..Len(rs) |-> PublicPlace(rs[i])]

Opt(key, present, value) == IF present THEN key :> value ELSE EmptyMap

Errors(wSlot, pSlot) ==
       Opt("weather", wSlot.tag = "Failure", IF wSlot.tag = "Failure" THEN wSlot.reason ELSE "")
    @@ Opt("places",  pSlot.tag = "Failure", IF pSlot.tag = "Failure" THEN pSlot.reason ELSE "")

\* mutant: the weather failure is tested first and hides the combined apology
SelectMessage_WeatherFirst(i, wSlot, pSlot) ==
    IF wSlot.tag = "Failure" THEN WeatherUnavailableMessage
    ELSE IF pSlot.tag = "Failure" THEN PlacesUnavailableMessage
    ELSE SummaryMessage(i)

\* error surfacing policy: exactly one message
SelectMessage(i, wSlot, pSlot) ==
    IF wSlot.tag = "Failure" /\ pSlot.tag = "Failure" THEN BothFailedMessage
    ELSE IF wSlot.tag = "Failure" THEN WeatherUnavailableMessage
    ELSE IF pSlot.tag = "Failure" THEN PlacesUnavailableMessage
    ELSE SummaryMessage(i)

UnknownLocationResponse == [message |-> UnknownLocationMessage, errors |-> EmptyMap]
ClarificationResponse   == [message |-> ClarificationMessage, errors |-> EmptyMap]

\* mutant: data is attached only when no tool failed
AssembleResponse_AllOrNothing(i, location, wSlot, pSlot) ==
    LET failed  == wSlot.tag = "Failure" \/ pSlot.tag = "Failure"
        weather == IF wSlot.tag = "Success" /\ ~failed THEN wSlot.payload ELSE NoWeather
        places  == IF pSlot.tag = "Success" /\ ~failed THEN rank(pSlot.payload, location) ELSE <<>>
        tip     == generate_vibe_tip(weather, places)
        link    == build_map_link(places)
    IN     [message |-> SelectMessage(i, wSlot, pSlot), errors |-> Errors(wSlot, pSlot)]
        @@ Opt("weather",  wSlot.tag = "Success" /\ ~failed, weather)
        @@ Opt("places",   pSlot.tag = "Success" /\ ~failed, PublicPlaces(places))
        @@ Opt("vibe_tip", tip # NoTip, tip)
        @@ Opt("map_url",  link # NoLink, link)

AssembleResponse(i, location, wSlot, pSlot) ==
    LET weather == IF wSlot.tag = "Success" THEN wSlot.payload ELSE NoWeather
        places  == IF pSlot.tag = "Success" THEN rank(pSlot.payload, location) ELSE <<>>
        tip     == generate_vibe_tip(weather, places)
        link    == build_map_link(places)
    IN     [message |-> SelectMessage(i, wSlot, pSlot), errors |-> Errors(wSlot, pSlot)]
        @@ Opt("weather",  wSlot.tag = "Success", weather)
        @@ Opt("places",   pSlot.tag = "Success", PublicPlaces(places))
        @@ Opt("vibe_tip", tip # NoTip, tip)
        @@ Opt("map_url",  link # NoLink, link)

-----------------------------------------------------------------------------
(* Spec: one request through the orchestrator *)

Call(tool)          == [tool |-> tool, ev |-> "invoke"]
Return(tool, o)     == [tool |-> tool, ev |-> "return", outcome |-> o]

NotRanked == [done |-> FALSE, result |-> <<>>]

RankIdle  == raw = <<>> /\ ranked = NotRanked
\* JavaScript null, and a string held where null may be held instead
Null == [null |-> TRUE]
Str(text) == [text |-> text]

NoRequest == [status |-> "none", prompt |-> "", intent |-> "both"]

\* App's useState initial values
FrontStart ==
    /\ prompt = "Plan a Bangalore escape"
    /\ uiIntent = "both"
    /\ loading = FALSE
    /\ error = Null
    /\ uiResponse = Null
    /\ request = NoRequest

FrontIdle == FrontStart /\ useMock = FALSE

EnhIdle ==
    /\ enhWeather = NoWeather
    /\ enhanced = FALSE
    /\ vibeTip = NoTip
    /\ mapUrl = NoLink

OrchStart ==
    /\ state = "START"
    /\ intent = NoIntent
    /\ geocodeSlot = NotDispatched
    /\ weatherSlot = NotDispatched
    /\ placesSlot = NotDispatched
    /\ calls = <<>>
    /\ visited = <<"START">>
    /\ response = NoResponse

OrchIdle ==
    /\ query = [weatherCue |-> FALSE, placeCue |-> FALSE, location_candidate |-> NoLocation]
    /\ OrchStart

Init ==
    /\ query \in Queries
    /\ OrchStart
    /\ RankIdle
    /\ FrontIdle
    /\ EnhIdle

\* mutant: the entry node never asks for a location
Extract_AlwaysGeocodes ==
    /\ state = "START" /\ intent = NoIntent
    /\ intent' = extract(query).intent
    /\ UNCHANGED <<response, state, visited>>
    /\ UNCHANGED <<query, geocodeSlot, weatherSlot, placesSlot, calls>>
    /\ UNCHANGED <<rankVars, frontVars, enhVars>>

\* Entry node: run the extractor; without a location, ask for one and stop.
Extract ==
    /\ state = "START" /\ intent = NoIntent
    /\ LET e == extract(query) IN
        /\ intent' = e.intent
        /\ IF e.location_candidate = NoLocation
           THEN /\ response' = ClarificationResponse
                /\ state' = "DONE"
                /\ visited' = Append(visited, "DONE")
           ELSE UNCHANGED <<response, state, visited>>
    /\ UNCHANGED <<query, geocodeSlot, weatherSlot, placesSlot, calls>>
    /\ UNCHANGED <<rankVars, frontVars, enhVars>>

\* Geocode node: call geocode_city with the extracted location.
GeocodeInvoke ==
    /\ state = "START" /\ intent # NoIntent
    /\ geocodeSlot = NotDispatched
    /\ geocodeSlot' = Pending
    /\ calls' = Append(calls, Call("geocode"))
    /\ UNCHANGED <<query, state, intent, weatherSlot, placesSlot, visited, response>>
    /\ UNCHANGED <<rankVars, frontVars, enhVars>>

\* mutant: a None answer is taken for a resolved location
GeocodeReturn_NoneProceeds ==
    /\ geocodeSlot = Pending
    /\ \E o \in GeocodeOutcomes(query.location_candidate) :
        /\ geocodeSlot' = o
        /\ calls' = Append(calls, Return("geocode", o))
        /\ IF o.tag \in {"Success", "None"}
           THEN /\ state' = "GEOCODED"
                /\ visited' = Append(visited, "GEOCODED")
                /\ UNCHANGED response
           ELSE /\ state' = "DONE"
                /\ visited' = Append(visited, "DONE")
                /\ response' = UnknownLocationResponse
    /\ UNCHANGED <<query, intent, weatherSlot, placesSlot>>
    /\ UNCHANGED <<rankVars, frontVars, enhVars>>

\* geocode_city answers: a location, None, or a failed request.
GeocodeReturn ==
    /\ geocodeSlot = Pending
    /\ \E o \in GeocodeOutcomes(query.location_candidate) :
        /\ geocodeSlot' = o
        /\ calls' = Append(calls, Return("geocode", o))
        /\ IF o.tag = "Success"
           THEN /\ state' = "GEOCODED"
                /\ visited' = Append(visited, "GEOCODED")
                /\ UNCHANGED response
           ELSE /\ state' = "DONE"
                /\ visited' = Append(visited, "DONE")
                /\ response' = UnknownLocationResponse
    /\ UNCHANGED <<query, intent, weatherSlot, placesSlot>>
    /\ UNCHANGED <<rankVars, frontVars, enhVars>>

\* mutant: a weather-only request skips the geocode call
Dispatch_WithoutGeocode ==
    /\ \/ state = "GEOCODED"
       \/ state = "START" /\ intent = "weather" /\ geocodeSlot = NotDispatched
    /\ weatherSlot' = IF "weather" \in ToolsFor(intent) THEN Pending ELSE weatherSlot
    /\ placesSlot'  = IF "places" \in ToolsFor(intent) THEN Pending ELSE placesSlot
    /\ calls' = calls
                \o (IF "weather" \in ToolsFor(intent) THEN <<Call("weather")>> ELSE <<>>)
                \o (IF "places" \in ToolsFor(intent) THEN <<Call("places")>> ELSE <<>>)
    /\ state' = PendingState(intent)
    /\ visited' = Append(visited, PendingState(intent))
    /\ UNCHANGED <<query, intent, geocodeSlot, response>>
    /\ UNCHANGED <<rankVars, frontVars, enhVars>>

\* Decision node: launch the tools the intent names.
Dispatch ==
    /\ state = "GEOCODED"
    /\ weatherSlot' = IF "weather" \in ToolsFor(intent) THEN Pending ELSE weatherSlot
    /\ placesSlot'  = IF "places" \in ToolsFor(intent) THEN Pending ELSE placesSlot
    /\ calls' = calls
                \o (IF "weather" \in ToolsFor(intent) THEN <<Call("weather")>> ELSE <<>>)
                \o (IF "places" \in ToolsFor(intent) THEN <<Call("places")>> ELSE <<>>)
    /\ state' = PendingState(intent)
    /\ visited' = Append(visited, PendingState(intent))
    /\ UNCHANGED <<query, intent, geocodeSlot, response>>
    /\ UNCHANGED <<rankVars, frontVars, enhVars>>

\* Weather node: get_weather answers or fails; a ToolError is captured.
\* mutant: a failed weather call is tried a second time
WeatherReturn_RetryOnFailure ==
    /\ weatherSlot = Pending
    /\ \E o \in WeatherOutcomes :
        LET tried == Cardinality({i \in 1..Len(calls) : calls[i] = Call("weather")})
        IN  IF o.tag = "Failure" /\ tried < 2
            THEN /\ weatherSlot' = Pending
                 /\ calls' = calls \o <<Return("weather", o), Call("weather")>>
            ELSE /\ weatherSlot' = o
                 /\ calls' = Append(calls, Return("weather", o))
    /\ UNCHANGED <<query, state, intent, geocodeSlot, placesSlot, visited, response>>
    /\ UNCHANGED <<rankVars, frontVars, enhVars>>

WeatherReturn ==
    /\ weatherSlot = Pending
    /\ \E o \in WeatherOutcomes :
        /\ weatherSlot' = o
        /\ calls' = Append(calls, Return("weather", o))
    /\ UNCHANGED <<query, state, intent, geocodeSlot, placesSlot, visited, response>>
    /\ UNCHANGED <<rankVars, frontVars, enhVars>>

\* mutant: a failed weather call cancels the places call in flight
PlacesReturn_CancelledBySibling ==
    /\ placesSlot = Pending
    /\ \E o \in (IF weatherSlot.tag = "Failure" THEN {Failure("Cancelled")}
                  ELSE PlacesOutcomes) :
        /\ placesSlot' = o
        /\ calls' = Append(calls, Return("places", o))
    /\ UNCHANGED <<query, state, intent, geocodeSlot, weatherSlot, visited, response>>
    /\ UNCHANGED <<rankVars, frontVars, enhVars>>

\* mutant: an empty answer of get_places is recorded as a failure
PlacesReturn_EmptyIsFailure ==
    /\ placesSlot = Pending
    /\ \E o \in PlacesOutcomes :
        /\ placesSlot' = IF o = Success(<<>>) THEN Failure("No places found") ELSE o
        /\ calls' = Append(calls, Return("places", o))
    /\ UNCHANGED <<query, state, intent, geocodeSlot, weatherSlot, visited, response>>
    /\ UNCHANGED <<rankVars, frontVars, enhVars>>

\* Places node: get_places answers or fails; a ToolError is captured.
PlacesReturn ==
    /\ placesSlot = Pending
    /\ \E o \in PlacesOutcomes :
        /\ placesSlot' = o
        /\ calls' = Append(calls, Return("places", o))
    /\ UNCHANGED <<query, state, intent, geocodeSlot, weatherSlot, visited, response>>
    /\ UNCHANGED <<rankVars, frontVars, enhVars>>

\* mutant: the merge waits for the first outcome only
AllSettled_AnySettled == Settled(weatherSlot) \/ Settled(placesSlot)

\* every launched call has produced its outcome
AllSettled == weatherSlot # Pending /\ placesSlot # Pending

Merge ==
    /\ state \in PendingStates
    /\ AllSettled
    /\ state' = "MERGED"
    /\ visited' = Append(visited, "MERGED")
    /\ UNCHANGED <<query, intent, geocodeSlot, weatherSlot, placesSlot, calls, response>>
    /\ UNCHANGED <<rankVars, frontVars, enhVars>>

\* Assembler node: merge the outcomes into the response.
Assemble ==
    /\ state = "MERGED"
    /\ response' = AssembleResponse(intent, geocodeSlot.payload, weatherSlot, placesSlot)
    /\ state' = "DONE"
    /\ visited' = Append(visited, "DONE")
    /\ UNCHANGED <<query, intent, geocodeSlot, weatherSlot, placesSlot, calls>>
    /\ UNCHANGED <<rankVars, frontVars, enhVars>>

Next ==
    \/ Extract
    \/ GeocodeInvoke
    \/ GeocodeReturn
    \/ Dispatch
    \/ WeatherReturn
    \/ PlacesReturn
    \/ Merge
    \/ Assemble

Spec == Init /\ [][Next]_vars

\* Every tool call carries its own deadline (10 s by default), so a call in
\* flight always comes back, with an answer, an error or a timeout.
SpecLive == Init /\ [][Next]_vars /\ WF_vars(WeatherReturn) /\ WF_vars(PlacesReturn)

-----------------------------------------------------------------------------
(* Properties of Spec *)

Invoked(tool) == \E i \in 1..Len(calls) : calls[i] = Call(tool)

InvokedTools == {t \in {"weather", "places"} : Invoked(t)}

\* index of the first log entry satisfying ev/tool, 0 when there is none
FirstIndex(tool, ev) ==
    IF \E i \in 1..Len(calls) : calls[i].tool = tool /\ calls[i].ev = ev
    THEN CHOOSE i \in 1..Len(calls) :
            /\ calls[i].tool = tool /\ calls[i].ev = ev
            /\ \A j \in 1..(i - 1) : ~(calls[j].tool = tool /\ calls[j].ev = ev)
    ELSE 0

\* C1: when geocode answers None the request is over at once: DONE is entered
\* straight from START, neither weather nor places is ever invoked, the message
\* is exactly "I don't know this place exists", errors is empty and the
\* response has neither weather nor places.
C1_UnknownLocationTerminal ==
    geocodeSlot = NotFound =>
        /\ state = "DONE"
        /\ visited = <<"START", "DONE">>
        /\ InvokedTools = {}
        /\ weatherSlot = NotDispatched /\ placesSlot = NotDispatched
        /\ response # NoResponse
        /\ response.message = "I don't know this place exists"
        /\ DOMAIN response.errors = {}
        /\ "weather" \notin DOMAIN response
        /\ "places" \notin DOMAIN response

C1_Witness ==
    /\ geocodeSlot = NotFound
    /\ query.location_candidate = "Wakanda"
    /\ state = "DONE"
    /\ response.message = UnknownLocationMessage

\* C2: geocode is invoked and has returned before weather or places is
\* invoked, whatever the intent, and every pending state is entered from
\* GEOCODED.
C2_GeocodeFirst ==
    /\ \A i \in 1..Len(calls) :
          (calls[i].ev = "invoke" /\ calls[i].tool \in {"weather", "places"}) =>
              /\ FirstIndex("geocode", "invoke") > 0
              /\ FirstIndex("geocode", "invoke") < FirstIndex("geocode", "return")
              /\ FirstIndex("geocode", "return") < i
    /\ \A i \in 1..Len(visited) :
          visited[i] \in {"WEATHER_PENDING", "PLACES_PENDING", "BOTH_PENDING"} =>
              i > 1 /\ visited[i - 1] = "GEOCODED"

C2_Witness ==
    /\ intent = "weather"
    /\ state = "WEATHER_PENDING"
    /\ calls = <<Call("geocode"), Return("geocode", Success(Origin)), Call("weather")>>

\* C3: once the location is resolved and the tools are dispatched, the tools
\* invoked are exactly those of the intent: weather -> weather only,
\* places -> places only, both -> weather and places; none before dispatch.
C3_ToolsMatchIntent ==
    /\ state \in {"START", "GEOCODED"} => InvokedTools = {}
    /\ (geocodeSlot.tag = "Success" /\ state \notin {"START", "GEOCODED"}) =>
          /\ intent = "weather" => InvokedTools = {"weather"}
          /\ intent = "places"  => InvokedTools = {"places"}
          /\ intent = "both"    => InvokedTools = {"weather", "places"}

C3_Witness ==
    /\ intent = "places"
    /\ state = "DONE"
    /\ InvokedTools = {"places"}
    /\ placesSlot.tag = "Success"

\* the log holds a return of `first` before a return of `second`
ReturnedBefore(first, second) ==
    /\ FirstIndex(first, "return") > 0
    /\ FirstIndex(first, "return") < FirstIndex(second, "return")

\* C4: under intent both, a failed or timed-out tool leaves its sibling alone:
\* while the sibling is in flight every outcome of it can still arrive and one
\* does arrive, the step that records one tool's outcome never touches the
\* other tool's slot, and a recorded outcome is the one the tool returned and
\* is never changed.
C4_IndependentFailure ==
    /\ (intent = "both" /\ weatherSlot.tag = "Failure" /\ placesSlot = Pending)
          ~> Settled(placesSlot)
    /\ (intent = "both" /\ placesSlot.tag = "Failure" /\ weatherSlot = Pending)
          ~> Settled(weatherSlot)
    /\ [](intent = "both" =>
            /\ (weatherSlot.tag = "Failure" /\ placesSlot = Pending) =>
                  \A o \in PlacesOutcomes : ENABLED (PlacesReturn /\ placesSlot' = o)
            /\ (placesSlot.tag = "Failure" /\ weatherSlot = Pending) =>
                  \A o \in WeatherOutcomes : ENABLED (WeatherReturn /\ weatherSlot' = o))
    /\ [][intent = "both" =>
            /\ (weatherSlot = Pending /\ weatherSlot' # Pending) =>
                  /\ placesSlot' = placesSlot
                  /\ calls' = Append(calls, Return("weather", weatherSlot'))
            /\ (placesSlot = Pending /\ placesSlot' # Pending) =>
                  /\ weatherSlot' = weatherSlot
                  /\ calls' = Append(calls, Return("places", placesSlot'))
            /\ Settled(weatherSlot) => weatherSlot' = weatherSlot
            /\ Settled(placesSlot) => placesSlot' = placesSlot]_vars

\* weather failed first, places succeeded afterwards, and the places are in
\* the response
C4_Witness ==
    /\ intent = "both" /\ state = "DONE"
    /\ weatherSlot = Failure("Timeout")
    /\ placesSlot.tag = "Success"
    /\ ReturnedBefore("weather", "places")
    /\ "places" \in DOMAIN response

\* C5: the merge happens only when every launched call has produced its
\* outcome: in MERGED and after it no call is pending and every tool of the
\* intent has a settled slot; a tool's return writes that tool's slot only.
C5_JoinBarrier ==
    /\ [](("MERGED" \in {visited[i] : i \in 1..Len(visited)}) =>
            /\ weatherSlot # Pending /\ placesSlot # Pending
            /\ \A t \in InvokedTools :
                  Settled(IF t = "weather" THEN weatherSlot ELSE placesSlot))
    /\ [][/\ (weatherSlot' # weatherSlot /\ Settled(weatherSlot')) => placesSlot' = placesSlot
          /\ (placesSlot' # placesSlot /\ Settled(placesSlot')) => weatherSlot' = weatherSlot]_vars

\* merged under intent both after both calls returned, places first
C5_Witness ==
    /\ state = "MERGED" /\ intent = "both"
    /\ Settled(weatherSlot) /\ Settled(placesSlot)
    /\ ReturnedBefore("places", "weather")

\* C6: under intent both with a resolved location the message is fixed by the
\* pair of outcomes: both succeed -> summary, only weather fails -> weather
\* apology, only places fails -> places apology, both fail -> the combined
\* apology; the four are different messages.
C6_MessageByOutcomes ==
    (state = "DONE" /\ intent = "both" /\ geocodeSlot.tag = "Success") =>
        LET wf == weatherSlot.tag = "Failure"
            pf == placesSlot.tag = "Failure"
            kind == CASE response.message = "Weather data unavailable right now." -> "weather-apology"
                      [] response.message = "Couldn't fetch attractions at the moment." -> "places-apology"
                      [] response.message = "I ran into an issue fetching travel data." -> "combined-apology"
                      [] response.message = SummaryMessage("both") -> "summary"
                      [] OTHER -> "other"
        IN  /\ Settled(weatherSlot) /\ Settled(placesSlot)
            /\ (~wf /\ ~pf) => kind = "summary"
            /\ (wf /\ ~pf)  => kind = "weather-apology"
            /\ (~wf /\ pf)  => kind = "places-apology"
            /\ (wf /\ pf)   => kind = "combined-apology"

C6_Witness ==
    /\ state = "DONE" /\ intent = "both"
    /\ weatherSlot.tag = "Failure" /\ placesSlot.tag = "Failure"
    /\ response.message = BothFailedMessage

\* C7: the final response reflects every dispatched tool's slot: a Failure is
\* under the tool's name in errors, a Success has its payload attached (the
\* weather result, the ranked places), whatever the message apologises for.
C7_SlotsReflected ==
    (state = "DONE" /\ geocodeSlot.tag = "Success") =>
        /\ weatherSlot.tag = "Failure" =>
              /\ "weather" \in DOMAIN response.errors
              /\ response.errors["weather"] = weatherSlot.reason
        /\ weatherSlot.tag = "Success" =>
              /\ "weather" \in DOMAIN response
              /\ response.weather = weatherSlot.payload
        /\ placesSlot.tag = "Failure" =>
              /\ "places" \in DOMAIN response.errors
              /\ response.errors["places"] = placesSlot.reason
        /\ placesSlot.tag = "Success" =>
              /\ "places" \in DOMAIN response
              /\ response.places = PublicPlaces(rank(placesSlot.payload, Origin))
              /\ Len(response.places) = Min(Len(placesSlot.payload), 5)

\* weather timed out, places answered three entries
C7_Witness ==
    /\ state = "DONE"
    /\ weatherSlot = Failure("Timeout")
    /\ placesSlot.tag = "Success" /\ Len(placesSlot.payload) = 3
    /\ response.errors["weather"] = "Timeout"
    /\ Len(response.places) = 3
    /\ response.message = WeatherUnavailableMessage

\* C8: a prompt that names no location is answered with the clarification
\* request before geocoding: no tool is invoked, no call is launched.
C8_NoLocationShortCircuit ==
    query.location_candidate = NoLocation =>
        /\ calls = <<>>
        /\ geocodeSlot = NotDispatched
        /\ weatherSlot = NotDispatched /\ placesSlot = NotDispatched
        /\ intent # NoIntent =>
              /\ state = "DONE"
              /\ visited = <<"START", "DONE">>
              /\ response # NoResponse
              /\ response.message = ClarificationMessage
              /\ response.message # "I don't know this place exists"
              /\ DOMAIN response = {"message", "errors"}

C8_Witness ==
    /\ query.location_candidate = NoLocation
    /\ intent # NoIntent
    /\ state = "DONE"
    /\ response = ClarificationResponse

\* get_places answered with no place at all
PlacesAnsweredEmpty ==
    \E i \in 1..Len(calls) : calls[i] = Return("places", Success(<<>>))

\* C12: an empty answer of the places tool is a Success: the slot holds
\* Success, errors has no places entry, the response carries the (empty)
\* places list and the message is neither the places apology nor the combined
\* apology.
C12_EmptyPlacesIsSuccess ==
    PlacesAnsweredEmpty =>
        /\ placesSlot = Success(<<>>)
        /\ state = "DONE" =>
              /\ "places" \notin DOMAIN response.errors
              /\ "places" \in DOMAIN response /\ response.places = <<>>
              /\ response.message # "Couldn't fetch attractions at the moment."
              /\ response.message # "I ran into an issue fetching travel data."

C12_Witness ==
    /\ PlacesAnsweredEmpty
    /\ state = "DONE" /\ intent = "places"
    /\ response.message = SummaryMessage("places")
    /\ response.errors = EmptyMap


\* C17: once extracted, the intent is both when the prompt has cues of both
\* families or of neither; it is weather only with weather cues alone and
\* places only with place cues alone.
C17_IntentResolution ==
    intent # NoIntent =>
        /\ intent \in Intents
        /\ intent = "both" <=> (query.weatherCue <=> query.placeCue)
        /\ intent = "weather" <=> (query.weatherCue /\ ~query.placeCue)
        /\ intent = "places" <=> (query.placeCue /\ ~query.weatherCue)

\* a prompt with no cue at all is answered for both
C17_Witness ==
    /\ ~query.weatherCue /\ ~query.placeCue
    /\ intent = "both"
    /\ state = "DONE"
    /\ Invoked("weather") /\ Invoked("places")

Invocations(tool) == Cardinality({i \in 1..Len(calls) : calls[i] = Call(tool)})

Returns(tool) ==
    Cardinality({i \in 1..Len(calls) : calls[i].tool = tool /\ calls[i].ev = "return"})

\* C18: within one request geocode, weather and places are each invoked at
\* most once and answer at most once, a failed or timed-out call included: a
\* call that returned is never invoked again.
C18_NoRetries ==
    \A tool \in {"geocode", "weather", "places"} :
        /\ Invocations(tool) <= 1
        /\ Returns(tool) <= Invocations(tool)

\* weather timed out, places failed, the request is answered: one call each
C18_Witness ==
    /\ state = "DONE"
    /\ weatherSlot = Failure("Timeout")
    /\ placesSlot.tag = "Failure"
    /\ Invocations("geocode") = 1
    /\ Invocations("weather") = 1
    /\ Invocations("places") = 1

-----------------------------------------------------------------------------
(* SpecRank: the ranking applied to raw provider results *)

Range(s) == {s[i] : i \in 1..Len(s)}

\* sequences of distinct catalogue places, up to n long
RECURSIVE DistinctSeqs(_)
DistinctSeqs(n) ==
    IF n = 0 THEN {<<>>}
    ELSE LET shorter == DistinctSeqs(n - 1)
         IN  shorter \cup
             UNION {{Append(t, x) : x \in RawCatalogue \ Range(t)} :
                        t \in {u \in shorter : Len(u) = n - 1}}

InitRank ==
    /\ raw \in DistinctSeqs(MaxRaw)
    /\ ranked = NotRanked
    /\ OrchIdle
    /\ FrontIdle
    /\ EnhIdle

Rank ==
    /\ ~ranked.done
    /\ ranked' = [done |-> TRUE, result |-> rank(raw, Origin)]
    /\ UNCHANGED <<raw, orchVars, frontVars, enhVars>>

NextRank == Rank

SpecRank == InitRank /\ [][NextRank]_vars

\* C10 as stated: at most 5 items, every earlier item scoring strictly more
\* than every later one, no empty name.
C10_StrictlyDescending ==
    ranked.done =>
        LET r == ranked.result
        IN  /\ Len(r) <= 5
            /\ \A i, j \in 1..Len(r) : i < j => r[i].score > r[j].score
            /\ \A i \in 1..Len(r) : r[i].name # ""

\* C10 (amended): rank returns the 5 best-scoring places at most, in
\* non-increasing score order (places may score the same), every name
\* non-empty: a place the provider left nameless is titled by one of its tags.
C10_TopFiveDescendingNamed ==
    ranked.done =>
        LET r == ranked.result
        IN  /\ Len(r) <= 5
            /\ Len(r) = Min(Len(raw), 5)
            /\ \A i, j \in 1..Len(r) : i < j => r[i].score >= r[j].score
            /\ \A i \in 1..Len(r) :
                  /\ r[i].name # ""
                  /\ \E k \in 1..Len(raw) :
                        /\ r[i].latitude = raw[k].latitude
                        /\ r[i].longitude = raw[k].longitude
                        /\ r[i].score = Score(raw[k], Origin)
                        /\ r[i].name = IF raw[k].name # "" THEN raw[k].name
                                       ELSE r[i].kind
                        /\ r[i].kind \in raw[k].category_tags
            \* nothing left out scores more than something kept
            /\ \A k \in 1..Len(raw) :
                  (\A i \in 1..Len(r) : Score(raw[k], Origin) > r[i].score) => Len(r) = 0

\* more than 5 raw places, a nameless one ranked, two ranked places tied
C10_Witness ==
    /\ ranked.done
    /\ Len(raw) > 5
    /\ Len(ranked.result) = 5
    /\ \E k \in 1..Len(raw) : raw[k].name = "" /\
          \E i \in 1..5 : /\ ranked.result[i].latitude = raw[k].latitude
                          /\ ranked.result[i].longitude = raw[k].longitude
                          /\ ranked.result[i].name # ""
    /\ \E i \in 1..4 : ranked.result[i].score = ranked.result[i + 1].score

\* position in raw of the place ranked i-th (raw places differ in coordinates)
ProviderIndex(i) ==
    CHOOSE k \in 1..Len(raw) :
        /\ raw[k].latitude = ranked.result[i].latitude
        /\ raw[k].longitude = ranked.result[i].longitude

\* C11: the ranking is fixed by its input alone: it is the first 5 of the raw
\* places in the total order "higher score first, equal scores in provider
\* order", so places scoring the same keep their provider order and any two
\* calls on the same raw places and origin return the same sequence.
C11_StableDeterministic ==
    ranked.done =>
        LET r == ranked.result
            Kept == {ProviderIndex(i) : i \in 1..Len(r)}
        IN  /\ Len(r) = Min(Len(raw), 5)
            /\ \A i, j \in 1..Len(r) : i < j =>
                  \/ r[i].score > r[j].score
                  \/ r[i].score = r[j].score /\ ProviderIndex(i) < ProviderIndex(j)
            /\ \A k \in (1..Len(raw)) \ Kept : \A i \in 1..Len(r) :
                  \/ Score(raw[k], Origin) < r[i].score
                  \/ Score(raw[k], Origin) = r[i].score /\ ProviderIndex(i) < k

\* two ranked neighbours score the same, and a place tying with the last
\* ranked one was cut
C11_Witness ==
    /\ ranked.done
    /\ Len(raw) > 5
    /\ \E i \in 1..4 : ranked.result[i].score = ranked.result[i + 1].score
    /\ \E k \in 1..Len(raw) :
          /\ Score(raw[k], Origin) = ranked.result[5].score
          /\ \A i \in 1..5 : ProviderIndex(i) # k


-----------------------------------------------------------------------------
(* SpecEnhance: ranking, then vibe tip and map link on the ranked places *)

InitEnhance ==
    /\ raw \in DistinctSeqs(MaxRaw)
    /\ ranked = NotRanked
    /\ enhWeather \in WeatherResults \cup {NoWeather}
    /\ enhanced = FALSE
    /\ vibeTip = NoTip
    /\ mapUrl = NoLink
    /\ OrchIdle
    /\ FrontIdle

\* after the tool data is gathered: enrich the payload
Enhance ==
    /\ ranked.done
    /\ ~enhanced
    /\ enhanced' = TRUE
    /\ vibeTip' = generate_vibe_tip(enhWeather, ranked.result)
    /\ mapUrl' = build_map_link(ranked.result)
    /\ UNCHANGED <<enhWeather, orchVars, rankVars, frontVars>>

NextEnhance ==
    \/ Rank
    \/ Enhance

SpecEnhance == InitEnhance /\ [][NextEnhance]_vars

\* the categories in tie-break precedence, and the keyword set of each
VibePrecedence == <<"outdoors", "culture", "nightlife">>

KeywordsOf(v) ==
    IF v = "outdoors" THEN OutdoorsKeywords
    ELSE IF v = "culture" THEN CultureKeywords
    ELSE NightlifeKeywords

\* ranked places whose kind is a keyword of category v
Matching(v) == {i \in 1..Len(ranked.result) : ranked.result[i].kind \in KeywordsOf(v)}

Unclassifiable ==
    {i \in 1..Len(ranked.result) : \A k \in 1..3 : i \notin Matching(VibePrecedence[k])}

\* C13: the vibe the tip names is the category matched by the most ranked
\* places, the earliest of outdoors, culture, nightlife among those with the
\* highest count; no place counts for two categories, a place of no keyword
\* set counts for none, and with no place classified no vibe is named.
C13_DominantVibe ==
    (enhanced /\ vibeTip # NoTip) =>
        /\ \A k, l \in 1..3 : k # l =>
              Matching(VibePrecedence[k]) \cap Matching(VibePrecedence[l]) = {}
        /\ IF \A k \in 1..3 : Matching(VibePrecedence[k]) = {}
           THEN vibeTip.vibe = "none"
           ELSE \E d \in 1..3 :
                  /\ vibeTip.vibe = VibePrecedence[d]
                  /\ \A k \in 1..3 :
                        LET nd == Cardinality(Matching(VibePrecedence[d]))
                            nk == Cardinality(Matching(VibePrecedence[k]))
                        IN  nd > nk \/ (nd = nk /\ d <= k)

\* culture and nightlife tie for the highest count and culture wins, with an
\* unclassifiable place in the list
C13_Witness ==
    /\ enhanced
    /\ Cardinality(Matching("culture")) = 1
    /\ Cardinality(Matching("nightlife")) = 1
    /\ Matching("outdoors") = {}
    /\ Unclassifiable # {}
    /\ vibeTip.vibe = "culture"

\* C14: no tip is returned only for an empty places list together with absent
\* weather; with weather present, or with at least one ranked place (also
\* when no place matches a keyword set), a tip is returned.
C14_TipUnlessNothing ==
    enhanced =>
        /\ vibeTip = NoTip <=> (ranked.result = <<>> /\ enhWeather = NoWeather)
        /\ vibeTip # NoTip =>
              /\ DOMAIN vibeTip = {"vibe", "advice"}
              /\ (Unclassifiable = 1..Len(ranked.result)) => vibeTip.vibe = "none"

\* places that match no keyword set, no weather: still a tip
C14_Witness ==
    /\ enhanced
    /\ enhWeather = NoWeather
    /\ ranked.result # <<>>
    /\ Unclassifiable = 1..Len(ranked.result)
    /\ vibeTip # NoTip

\* C15: whatever vibe the tip names, it advises warm layers iff the
\* temperature is below 18 C, breathable clothing iff it is above 30 C and
\* rain protection iff the precipitation probability is 50% or more; at 18 C
\* and at 30 C no temperature advice is given, a temperature advice and the
\* rain advice can stand together, and without weather nothing is advised.
C15_WeatherRules ==
    (enhanced /\ vibeTip # NoTip) =>
        IF enhWeather = NoWeather THEN vibeTip.advice = {}
        ELSE /\ "warm layers" \in vibeTip.advice <=> enhWeather.temperature_c < 18
             /\ "breathable clothing" \in vibeTip.advice <=> enhWeather.temperature_c > 30
             /\ "rain protection" \in vibeTip.advice <=> enhWeather.precip_prob_pct >= 50
             /\ vibeTip.advice \subseteq
                    {"warm layers", "breathable clothing", "rain protection"}
             /\ enhWeather.temperature_c \in {18, 30} =>
                    vibeTip.advice \subseteq {"rain protection"}

\* 30 C with 50% rain under a nightlife plan: rain protection alone
C15_Witness ==
    /\ enhanced
    /\ enhWeather # NoWeather
    /\ enhWeather.temperature_c = 30
    /\ enhWeather.precip_prob_pct = 50
    /\ vibeTip.vibe = "nightlife"
    /\ vibeTip.advice = {"rain protection"}

\* a cold and rainy day: both advices in one tip
C15_Combined ==
    /\ enhanced
    /\ enhWeather # NoWeather
    /\ enhWeather.temperature_c = 17
    /\ enhWeather.precip_prob_pct = 50
    /\ vibeTip.advice = {"warm layers", "rain protection"}

\* C16: no link for 0 or 1 ranked places; for 2 or more the link is centred
\* on the first ranked place and has one marker per ranked place, in ranking
\* order, numbered from 1.
C16_MapLink ==
    enhanced =>
        LET r == ranked.result
        IN  /\ mapUrl = NoLink <=> Len(r) \in {0, 1}
            /\ Len(r) >= 2 =>
                  /\ mapUrl.center = <<r[1].latitude, r[1].longitude>>
                  /\ Len(mapUrl.markers) = Len(r)
                  /\ \A i \in 1..Len(r) :
                        /\ mapUrl.markers[i].lat = r[i].latitude
                        /\ mapUrl.markers[i].lon = r[i].longitude
                        /\ mapUrl.markers[i].label = i

\* a full ranking of 5 out of more raw places, reordered by score, is mapped
C16_Witness ==
    /\ enhanced
    /\ Len(raw) > 5
    /\ ranked.result[1].latitude # raw[1].latitude
    /\ mapUrl # NoLink
    /\ Len(mapUrl.markers) = 5
    /\ mapUrl.center = <<mapUrl.markers[1].lat, mapUrl.markers[1].lon>>

\* a single ranked place is not mapped
C16_SinglePlace == enhanced /\ Len(ranked.result) = 1 /\ mapUrl = NoLink

-----------------------------------------------------------------------------
(* SpecFront: the React console (App.tsx) *)

Prompts == {"", "   ", "Plan a Bangalore escape", " Weather in Kyoto "}

\* String.prototype.trim on the prompts of the model
Trim(p) ==
    IF p = "   " THEN ""
    ELSE IF p = " Weather in Kyoto " THEN "Weather in Kyoto"
    ELSE p

\* new Date().toISOString() at the time the mock answers
Timestamps == {"2025-11-25T10:00:00.000Z", "2025-11-26T10:00:00.000Z"}

\* coordinates in thousandths of a degree
basePlaces ==
    <<[name |-> "Bangalore Palace", kind |-> "palace", lat |-> 12998, lon |-> 77592],
      [name |-> "Lalbagh Botanical Garden", kind |-> "garden", lat |-> 12950, lon |-> 77584],
      [name |-> "Cubbon Park", kind |-> "park", lat |-> 12976, lon |-> 77592],
      [name |-> "National Gallery of Modern Art", kind |-> "museum", lat |-> 12998, lon |-> 77580],
      [name |-> "Bannerghatta National Park", kind |-> "wildlife", lat |-> 12800, lon |-> 77570]>>

\* the static map URL of the mock: its center and its markers red-1 .. red-5
mockMapUrl ==
    [center  |-> <<12970, 77590>>,
     markers |-> <<[lat |-> 12998, lon |-> 77592, label |-> 1],
                   [lat |-> 12950, lon |-> 77584, label |-> 2],
                   [lat |-> 12976, lon |-> 77592, label |-> 3],
                   [lat |-> 12998, lon |-> 77580, label |-> 4],
                   [lat |-> 12800, lon |-> 77570, label |-> 5]>>]

\* mutant: the weather block is filled whatever the intent
buildMockResponse_WeatherAlways(i, now) ==
    [message  |-> "Here's what I found for Bengaluru: warm afternoons with a slight chance of showers plus five standout experiences.",
     weather  |-> [temperature_c |-> 25, precip_prob_pct |-> 35, observed_at |-> now],
     places   |-> IF i # "weather" THEN basePlaces ELSE <<>>,
     vibe_tip |-> IF i = "weather"
                  THEN Str("Tip: Light breathable layers with a compact umbrella keep you ready for tropical swings.")
                  ELSE Str("Tip: Outdoor-forward plan with possible showers-pack a light raincoat and city-walk sneakers."),
     map_url  |-> IF i = "weather" THEN Null ELSE mockMapUrl]

\* Every key of the payload is set, some to null.
buildMockResponse(i, now) ==
    [message  |-> "Here's what I found for Bengaluru: warm afternoons with a slight chance of showers plus five standout experiences.",
     weather  |-> IF i # "places"
                  THEN [temperature_c |-> 25, precip_prob_pct |-> 35, observed_at |-> now]
                  ELSE Null,
     places   |-> IF i # "weather" THEN basePlaces ELSE <<>>,
     vibe_tip |-> IF i = "weather"
                  THEN Str("Tip: Light breathable layers with a compact umbrella keep you ready for tropical swings.")
                  ELSE Str("Tip: Outdoor-forward plan with possible showers-pack a light raincoat and city-walk sneakers."),
     map_url  |-> IF i = "weather" THEN Null ELSE mockMapUrl]

\* What response.json() can yield from the backend: payloads of the
\* TravelResponse type, optional keys missing or (where the type allows) null.
BackendResponses ==
    {[message |-> UnknownLocationMessage, errors |-> EmptyMap],
     [message |-> UnknownLocationMessage, weather |-> Null, places |-> <<>>,
      vibe_tip |-> Null, map_url |-> Null, errors |-> EmptyMap],
     [message |-> SummaryMessage("places"), weather |-> Null, places |-> <<>>,
      vibe_tip |-> Null, map_url |-> Null, errors |-> EmptyMap],
     [message |-> SummaryMessage("weather"),
      weather |-> [temperature_c |-> 17, precip_prob_pct |-> 50,
                   observed_at |-> "2025-11-25T10:00:00Z"],
      places |-> <<>>,
      vibe_tip |-> Str("Tip: pack warm layers and rain protection."),
      map_url |-> Null, errors |-> EmptyMap],
     [message |-> WeatherUnavailableMessage, weather |-> Null,
      places |-> SubSeq(basePlaces, 1, 3),
      vibe_tip |-> Str("Tip: outdoors."), map_url |-> mockMapUrl,
      errors |-> ("weather" :> "Timeout")],
     [message |-> PlacesUnavailableMessage,
      weather |-> [temperature_c |-> 31, precip_prob_pct |-> 49,
                   observed_at |-> "2025-11-25T10:00:00Z"],
      places |-> <<>>, vibe_tip |-> Str("Tip: pack breathable clothing."), map_url |-> Null,
      errors |-> ("places" :> "Places request failed")],
     [message |-> BothFailedMessage, weather |-> Null, places |-> <<>>,
      vibe_tip |-> Null, map_url |-> Null,
      errors |-> ("weather" :> "Timeout") @@ ("places" :> "Timeout")],
     [message |-> SummaryMessage("both"),
      weather |-> [temperature_c |-> 25, precip_prob_pct |-> 35,
                   observed_at |-> "2025-11-25T10:00:00Z"],
      places |-> basePlaces, vibe_tip |-> Str("Tip: outdoors."), map_url |-> mockMapUrl,
      errors |-> EmptyMap]}

\* what the catch block of handleSubmit can see
FetchErrors == {"API error: 500", "API error: 404", "Failed to fetch",
                "Something went wrong while calling the parent agent."}

\* ids of timelineSteps
TimelineStepIds == {"geocode", "weather", "places", "enhance"}

\* JavaScript truthiness of response[key] for an object or string valued key:
\* a missing key, null and the empty string are falsy
TruthyField(r, key) == key \in DOMAIN r /\ r[key] # Null /\ r[key] # Str("")

\* truthiness of response.errors?.[tool]
TruthyError(r, tool) ==
    /\ "errors" \in DOMAIN r
    /\ tool \in DOMAIN r.errors
    /\ r.errors[tool] # ""

\* response.places?.length ?? 0
PlacesLength(r) == IF "places" \in DOMAIN r THEN Len(r.places) ELSE 0

\* mutant: a places list counts as soon as it is there, empty or not
completedSteps_AnyPlacesList(resp) ==
    IF resp = Null THEN {}
    ELSE {"geocode"}
         \cup (IF TruthyField(resp, "weather") \/ TruthyError(resp, "weather")
               THEN {"weather"} ELSE {})
         \cup (IF "places" \in DOMAIN resp \/ TruthyError(resp, "places")
               THEN {"places"} ELSE {})
         \cup (IF TruthyField(resp, "vibe_tip") \/ TruthyField(resp, "map_url")
               THEN {"enhance"} ELSE {})

\* the useMemo over [response]
completedSteps(resp) ==
    IF resp = Null THEN {}
    ELSE {"geocode"}
         \cup (IF TruthyField(resp, "weather") \/ TruthyError(resp, "weather")
               THEN {"weather"} ELSE {})
         \cup (IF PlacesLength(resp) > 0 \/ TruthyError(resp, "places")
               THEN {"places"} ELSE {})
         \cup (IF TruthyField(resp, "vibe_tip") \/ TruthyField(resp, "map_url")
               THEN {"enhance"} ELSE {})

InitFront ==
    /\ FrontStart
    /\ useMock \in BOOLEAN
    /\ OrchIdle
    /\ RankIdle
    /\ EnhIdle

\* textarea onChange
SetPrompt ==
    /\ \E p \in Prompts : prompt' = p
    /\ UNCHANGED <<uiIntent, loading, error, uiResponse, request, useMock>>
    /\ UNCHANGED <<orchVars, rankVars, enhVars>>

\* intent chip onClick
SetIntent ==
    /\ \E i \in Intents : uiIntent' = i
    /\ UNCHANGED <<prompt, loading, error, uiResponse, request, useMock>>
    /\ UNCHANGED <<orchVars, rankVars, enhVars>>

\* mutant: the prompt is tested without trimming
Submit_NoTrim ==
    /\ ~loading
    /\ IF prompt = ""
       THEN UNCHANGED <<loading, error, request>>
       ELSE /\ loading' = TRUE
            /\ error' = Null
            /\ request' = [status |-> "pending", prompt |-> Trim(prompt), intent |-> uiIntent]
    /\ UNCHANGED <<prompt, uiIntent, uiResponse, useMock>>
    /\ UNCHANGED <<orchVars, rankVars, enhVars>>

\* handleSubmit up to the await; the submit button is disabled while loading
Submit ==
    /\ ~loading
    /\ IF Trim(prompt) = ""
       THEN UNCHANGED <<loading, error, request>>
       ELSE /\ loading' = TRUE
            /\ error' = Null
            /\ request' = [status |-> "pending", prompt |-> Trim(prompt), intent |-> uiIntent]
    /\ UNCHANGED <<prompt, uiIntent, uiResponse, useMock>>
    /\ UNCHANGED <<orchVars, rankVars, enhVars>>

\* fetchTravelPlan resolves: setResponse(data), then finally
Resolve ==
    /\ request.status = "pending"
    /\ \E data \in (IF useMock
                    THEN {buildMockResponse(request.intent, now) : now \in Timestamps}
                    ELSE BackendResponses) :
          uiResponse' = data
    /\ loading' = FALSE
    /\ request' = [request EXCEPT !.status = "resolved"]
    /\ UNCHANGED <<prompt, uiIntent, error, useMock>>
    /\ UNCHANGED <<orchVars, rankVars, enhVars>>

\* mutant: a rejected request also drops the response on screen
Reject_ClearsResponse ==
    /\ request.status = "pending"
    /\ ~useMock
    /\ \E msg \in FetchErrors : error' = Str(msg)
    /\ loading' = FALSE
    /\ uiResponse' = Null
    /\ request' = [request EXCEPT !.status = "rejected"]
    /\ UNCHANGED <<prompt, uiIntent, useMock>>
    /\ UNCHANGED <<orchVars, rankVars, enhVars>>

\* fetchTravelPlan rejects (the mock never does): setError, then finally
Reject ==
    /\ request.status = "pending"
    /\ ~useMock
    /\ \E msg \in FetchErrors : error' = Str(msg)
    /\ loading' = FALSE
    /\ request' = [request EXCEPT !.status = "rejected"]
    /\ UNCHANGED <<prompt, uiIntent, uiResponse, useMock>>
    /\ UNCHANGED <<orchVars, rankVars, enhVars>>

NextFront ==
    \/ SetPrompt
    \/ SetIntent
    \/ Submit
    \/ Resolve
    \/ Reject

SpecFront == InitFront /\ [][NextFront]_vars

\* SpecFront with the promise of fetchTravelPlan settling: it resolves or
\* rejects
SpecFrontLive == InitFront /\ [][NextFront]_vars /\ WF_vars(Resolve \/ Reject)

\* the response on screen is the mock's answer to the last request
MockAnswered(i) ==
    /\ useMock
    /\ request.status = "resolved" /\ request.intent = i
    /\ uiResponse # Null

HasData(r, key) == key \in DOMAIN r /\ r[key] # Null

\* C19: loading is true exactly while a request is in flight: a submit with a
\* non-blank prompt sets it and sends the trimmed prompt, the request
\* resolving or rejecting sets it back to false, and it does get back to
\* false; with a blank or whitespace-only prompt a submit sends nothing and
\* changes no state; while loading is true no submit can happen.
C19_LoadingLifecycle ==
    /\ [](loading <=> request.status = "pending")
    /\ [](loading => ~ENABLED Submit)
    /\ [][(Submit /\ Trim(prompt) # "") =>
              /\ loading'
              /\ request' = [status |-> "pending", prompt |-> Trim(prompt),
                             intent |-> uiIntent]]_vars
    /\ [][(~loading /\ loading') => Trim(prompt) # ""]_vars
    /\ [][(~loading /\ Trim(prompt) = "") =>
              <<loading, error, uiResponse, request>>' =
              <<loading, error, uiResponse, request>>]_vars
    /\ [][(request.status = "pending" /\ request'.status # "pending") =>
              ~loading']_vars
    /\ loading ~> ~loading

\* a request was rejected, loading is back to false, and the prompt now on
\* the form is whitespace only
C19_Witness ==
    /\ request.status = "rejected"
    /\ ~loading
    /\ prompt # "" /\ Trim(prompt) = ""

\* C20: a rejected request sets error to a message and leaves the response
\* as it was; sending a request clears error; a resolved request replaces the
\* response and leaves error null.
C20_ErrorAndResponse ==
    /\ [](request.status = "rejected" => error # Null /\ ~loading)
    /\ [](request.status = "resolved" => error = Null /\ uiResponse # Null)
    /\ [][(request.status = "pending" /\ request'.status = "rejected") =>
              /\ error' \in {Str(msg) : msg \in FetchErrors}
              /\ uiResponse' = uiResponse]_vars
    /\ [][(request.status # "pending" /\ request'.status = "pending") =>
              error' = Null /\ uiResponse' = uiResponse]_vars
    /\ [][(request.status = "pending" /\ request'.status = "resolved") =>
              /\ uiResponse' # Null
              /\ "message" \in DOMAIN uiResponse'
              /\ error' = Null]_vars

\* the error of a rejected request next to the response of an earlier one
C20_Witness ==
    /\ request.status = "rejected"
    /\ error # Null
    /\ uiResponse # Null

HasError(r, tool) == "errors" \in DOMAIN r /\ tool \in DOMAIN r.errors

\* C21: the completed set of the timeline is fixed by the response on screen:
\* empty without a response; with one it holds geocode always, weather iff
\* the response has weather data or errors.weather, places iff it has at
\* least one place or errors.places, enhance iff it has vibe_tip or map_url,
\* and nothing else.
C21_CompletedSteps ==
    LET c == completedSteps(uiResponse)
    IN  IF uiResponse = Null THEN c = {}
        ELSE /\ c \subseteq TimelineStepIds
             /\ "geocode" \in c
             /\ "weather" \in c <=>
                    (HasData(uiResponse, "weather") \/ HasError(uiResponse, "weather"))
             /\ "places" \in c <=>
                    \/ "places" \in DOMAIN uiResponse /\ uiResponse.places # <<>>
                    \/ HasError(uiResponse, "places")
             /\ "enhance" \in c <=>
                    (HasData(uiResponse, "vibe_tip") \/ HasData(uiResponse, "map_url"))

\* a places request answered with an empty list and no error: geocode alone
C21_Witness ==
    /\ uiResponse # Null
    /\ uiResponse.message = SummaryMessage("places")
    /\ "places" \in DOMAIN uiResponse /\ uiResponse.places = <<>>
    /\ ~HasError(uiResponse, "places")
    /\ completedSteps(uiResponse) = {"geocode"}

\* the unknown-location response: geocode alone
C21_UnknownLocation ==
    /\ uiResponse # Null
    /\ uiResponse.message = UnknownLocationMessage
    /\ completedSteps(uiResponse) = {"geocode"}

\* one tool failed, the other answered: all four steps
C21_AllSteps ==
    /\ uiResponse # Null
    /\ HasError(uiResponse, "weather")
    /\ completedSteps(uiResponse) = TimelineStepIds

====
